---- MODULE Spec2Model ----
(***************************************************************************)
(* ACLRegexData (src/acl/RegexData.cc): the regular-expression ACL data. *)
(* parse() reads raw tokens, trims redundant wildcards, drops oversized   *)
(* tokens and compiles the rest, first with compileOptimisedREs and, when *)
(* that returns 0, with compileUnoptimisedREs.  match() walks the list.   *)
(* dump() writes the list back as configuration tokens.                   *)
(*                                                                         *)
(* A C string is a sequence of one-character strings.                     *)
(***************************************************************************)
EXTENDS Integers, Sequences, FiniteSets, TLC

(***************************************************************************)
(* Bounds of the model.                                                    *)
(***************************************************************************)
\* Size of the optimiser's buffer largeRE (the platform's BUFSIZ, scaled down).
BUFSIZ == 13
\* Number of raw tokens the tokenizer hands out over the life of the object.
MaxTokens == 3

(***************************************************************************)
(* Strings.                                                                *)
(***************************************************************************)
strlen(s) == Len(s)

\* n copies of the character c
Rep(c, n) == [k \in 1..n |-> c]

\* strncmp(t, p, Len(p)) == 0
HasPrefix(t, p) == Len(t) >= Len(p) /\ SubSeq(t, 1, Len(p)) = p

\* the rest of t from index k on (t + (k-1) in the source)
From(t, k) == SubSeq(t, k, Len(t))

tolower ==
  [c \in {"A", "B", "C", "D", "E", "F", "G", "H", "I", "X", "Y", "Z"} |->
     CASE c = "A" -> "a" [] c = "B" -> "b" [] c = "C" -> "c"
       [] c = "D" -> "d" [] c = "E" -> "e" [] c = "F" -> "f"
       [] c = "G" -> "g" [] c = "H" -> "h" [] c = "I" -> "i"
       [] c = "X" -> "x" [] c = "Y" -> "y" [] c = "Z" -> "z"]

ToLower(c) == IF c \in DOMAIN tolower THEN tolower[c] ELSE c

(***************************************************************************)
(* The regular-expression engine (regcomp / regexec of POSIX extended      *)
(* syntax, flags REG_EXTENDED | REG_NOSUB and optionally REG_ICASE) on the *)
(* operators the patterns of this model use: literals, '.', '*', '+',      *)
(* '|', '(' ')' and '^'.                                                   *)
(***************************************************************************)
REG_EXTENDED == "REG_EXTENDED"
REG_NOSUB == "REG_NOSUB"
REG_ICASE == "REG_ICASE"

IsRepeat(c) == c \in {"*", "+"}

\* The index of the ')' that closes a group, scanning from j at nesting
\* depth d; 0 when the group is never closed.
RECURSIVE ScanClose(_, _, _)
ScanClose(re, j, d) ==
  IF j > Len(re) THEN 0
  ELSE IF re[j] = "(" THEN ScanClose(re, j + 1, d + 1)
  ELSE IF re[j] = ")" THEN (IF d = 1 THEN j ELSE ScanClose(re, j + 1, d - 1))
  ELSE ScanClose(re, j + 1, d)

ClosePos(re, i) == ScanClose(re, i + 1, 1)

\* The first '|' of re[lo..hi] outside any group; 0 when there is none.
RECURSIVE NextBar(_, _, _)
NextBar(re, lo, hi) ==
  IF lo > hi THEN 0
  ELSE IF re[lo] = "|" THEN lo
  ELSE IF re[lo] = "(" /\ ClosePos(re, lo) # 0 THEN NextBar(re, ClosePos(re, lo) + 1, hi)
  ELSE NextBar(re, lo + 1, hi)

\* regcomp(&comp, RE, flags) returns 0: every '(' is closed (an unmatched
\* ')' is an ordinary character) and no repetition operator starts a branch.
RegcompOK(re) ==
  /\ \A i \in 1..Len(re) : re[i] = "(" => ClosePos(re, i) # 0
  /\ \A i \in 1..Len(re) :
       IsRepeat(re[i]) => i > 1 /\ re[i - 1] \notin {"(", "|"}

CharMatch(pc, wc, icase) ==
  \/ pc = "."
  \/ pc = wc
  \/ icase /\ ToLower(pc) = ToLower(wc)

\* Positions of w reached from a position of S by matching re[lo..hi]:
\* Alt an alternation, Cat a concatenation, Atom one atom re[lo..close],
\* Star zero or more atoms.
RECURSIVE Alt(_, _, _, _, _, _)
RECURSIVE Cat(_, _, _, _, _, _)
RECURSIVE Atom(_, _, _, _, _, _)
RECURSIVE Star(_, _, _, _, _, _)

Alt(re, w, icase, lo, hi, S) ==
  LET b == NextBar(re, lo, hi)
  IN  IF b = 0 THEN Cat(re, w, icase, lo, hi, S)
      ELSE Cat(re, w, icase, lo, b - 1, S) \cup Alt(re, w, icase, b + 1, hi, S)

Atom(re, w, icase, lo, close, S) ==
  IF re[lo] = "(" /\ close > lo THEN Alt(re, w, icase, lo + 1, close - 1, S)
  ELSE IF re[lo] = "^" THEN {p \in S : p = 0}
  ELSE {p + 1 : p \in {q \in S : q < Len(w) /\ CharMatch(re[lo], w[q + 1], icase)}}

Star(re, w, icase, lo, close, S) ==
  LET T == S \cup Atom(re, w, icase, lo, close, S)
  IN  IF T = S THEN S ELSE Star(re, w, icase, lo, close, T)

Cat(re, w, icase, lo, hi, S) ==
  IF lo > hi \/ S = {} THEN S
  ELSE LET c == IF re[lo] = "(" THEN ClosePos(re, lo) ELSE 0
           close == IF c = 0 \/ c > hi THEN lo ELSE c
           rep == IF close < hi /\ IsRepeat(re[close + 1]) THEN re[close + 1] ELSE ""
           once == Atom(re, w, icase, lo, close, S)
           out == IF rep = "*" THEN Star(re, w, icase, lo, close, S)
                  ELSE IF rep = "+" THEN Star(re, w, icase, lo, close, once)
                  ELSE once
       IN  Cat(re, w, icase, IF rep = "" THEN close + 1 ELSE close + 2, hi, out)

\* regexec(&regex, word, 0, 0, 0) == 0: the pattern matches somewhere in word
Regexec(re, icase, w) == Alt(re, w, icase, 1, Len(re), 0..Len(w)) # {}

(***************************************************************************)
(* The tokens and words of the model.                                      *)
(***************************************************************************)
minus_i == <<"-", "i">>
plus_i == <<"+", "i">>

abc == <<"a", "b", "c">>
def == <<"d", "e", "f">>
\* "^.*-i": a pattern whose wildcard prefix is redundant
wild_minus_i == <<"^", ".", "*", "-", "i">>
\* "^.*": a pattern that is a wildcard only
wild == <<"^", ".", "*">>
\* "(": a pattern regcomp rejects
badRE == <<"(">>
\* a pattern of BUFSIZ-4 characters, and one of BUFSIZ characters
longRE == Rep("x", BUFSIZ - 4)
hugeRE == Rep("x", BUFSIZ)

\* What ConfigParser::RegexStrtokFile() may return (other than NULL).
RawTokens == {abc, def, minus_i, plus_i, wild, wild_minus_i, badRE, longRE, hugeRE}

\* the null pointer, which is no string
NULL == <<"NULL">>
Words == {abc, <<"A", "B", "C">>, <<"D", "E", "F">>, minus_i, longRE}

(***************************************************************************)
(* RegexPattern: the flags and the source text of one compiled pattern.    *)
(***************************************************************************)
RegexPattern(flags, RE) == [flags |-> flags, pattern |-> RE]

\* RegexPattern::match(word)
PatternMatch(i, word) == Regexec(i.pattern, REG_ICASE \in i.flags, word)

(***************************************************************************)
(* ACLRegexData::match: the index of the first pattern of data, from k on, *)
(* that matches word; 0 when none does.                                    *)
(***************************************************************************)
RECURSIVE FirstMatch(_, _, _)
FirstMatch(data, k, word) ==
  IF k > Len(data) THEN 0
  ELSE IF PatternMatch(data[k], word) THEN k
  ELSE FirstMatch(data, k + 1, word)

\* match without the test of line 33
matchNoNullCheck(data, word) == FirstMatch(data, 1, word) # 0

match(data, word) ==
  IF word = NULL THEN FALSE ELSE FirstMatch(data, 1, word) # 0

\* how many times the loop of lines 39-46 calls RegexPattern::match
matchCalls(data, word) ==
  IF word = NULL THEN 0
  ELSE IF FirstMatch(data, 1, word) = 0 THEN Len(data)
  ELSE FirstMatch(data, 1, word)

(***************************************************************************)
(* ACLRegexData::dump                                                      *)
(***************************************************************************)
RECURSIVE DumpFrom(_, _, _)
\* DumpFrom with the two flag tokens of lines 59-64 the wrong way round
DumpFromSwapped(data, k, flags) ==
  IF k > Len(data) THEN <<>>
  ELSE LET i == data[k]
           flag == IF i.flags # flags
                   THEN (IF REG_ICASE \in i.flags THEN <<plus_i>> ELSE <<minus_i>>)
                   ELSE <<>>
       IN  flag \o <<i.pattern>> \o DumpFrom(data, k + 1, i.flags)

\* lines 57-70: the tokens for the entries from the k-th on, flags being the
\* flags of the entry before
DumpFrom(data, k, flags) ==
  IF k > Len(data) THEN <<>>
  ELSE LET i == data[k]
           flag == IF i.flags # flags
                   THEN (IF REG_ICASE \in i.flags THEN <<minus_i>> ELSE <<plus_i>>)
                   ELSE <<>>
       IN  flag \o <<i.pattern>> \o DumpFrom(data, k + 1, i.flags)

dump(data) == DumpFrom(data, 1, {REG_EXTENDED, REG_NOSUB})

(***************************************************************************)
(* removeUnnecessaryWildcards                                              *)
(***************************************************************************)
RECURSIVE SkipDotStar(_)
\* SkipDotStar that takes a '.' without a '*' behind it for a wildcard too
SkipDotStarLoneDot(t) ==
  IF Len(t) >= 1 /\ t[1] = "."
  THEN SkipDotStar(From(t, IF Len(t) >= 2 /\ t[2] = "*" THEN 3 ELSE 2))
  ELSE t

\* lines 86-88: the loop that skips every leading ".*"
SkipDotStar(t) ==
  IF Len(t) >= 2 /\ t[1] = "." /\ t[2] = "*" THEN SkipDotStar(From(t, 3)) ELSE t

removeUnnecessaryWildcards(orig) ==
  LET t == SkipDotStar(IF HasPrefix(orig, <<"^", ".", "*">>) THEN From(orig, 4) ELSE orig)
  IN  IF t = <<>> THEN <<".", "*">> ELSE t

(***************************************************************************)
(* compileRE: ok is the return value, list the curlist afterwards.         *)
(***************************************************************************)
compileRE(curlist, RE, flags) ==
  IF RE = <<>> THEN [ok |-> curlist = <<>>, list |-> curlist]
  ELSE IF ~RegcompOK(RE) THEN [ok |-> FALSE, list |-> curlist]
  ELSE [ok |-> TRUE, list |-> Append(curlist, RegexPattern(flags, RE))]

(***************************************************************************)
(* compileOptimisedREs.  The locals are one record; ok is FALSE once the   *)
(* function has returned 0.                                                *)
(***************************************************************************)
OptLocals ==
  [newlist |-> <<>>, numREs |-> 0, flags |-> {REG_EXTENDED, REG_NOSUB},
   largeREindex |-> 0, largeRE |-> <<>>, ok |-> TRUE]

Min(a, b) == IF a < b THEN a ELSE b

\* AddRE without the '|' between two patterns
AddRENoBar(o, i) ==
  [o EXCEPT !.largeRE = @ \o <<"(">> \o i \o <<")">>,
            !.largeREindex = @ + Len(i) + 2,
            !.numREs = @ + 1]

\* lines 169-180: append '|' (behind a non-empty buffer), '(', i and ')'
AddRE(o, i) ==
  LET bar == IF o.largeREindex > 0 THEN <<"|">> ELSE <<>>
      at == o.largeREindex + Len(bar) + 1
      copied == SubSeq(i, 1, Min(Len(i), BUFSIZ - at))
  IN  [o EXCEPT !.largeRE = SubSeq(@, 1, o.largeREindex) \o bar \o <<"(">> \o copied \o <<")">>,
                !.largeREindex = at + Len(i) + 1,
                !.numREs = @ + 1]

\* compileRE(newlist, largeRE, flags) and, when it succeeds, the reset of
\* largeRE; when it fails the function returns 0
FlushRE(o) ==
  LET r == compileRE(o.newlist, o.largeRE, o.flags)
  IN  IF ~r.ok THEN [o EXCEPT !.ok = FALSE]
      ELSE [o EXCEPT !.newlist = r.list, !.largeRE = <<>>, !.largeREindex = 0]

\* OptimisedToken with the case flag switched without a flush
OptimisedTokenNoFlush(o, i) ==
  IF i = minus_i THEN [o EXCEPT !.flags = @ \cup {REG_ICASE}]
  ELSE IF i = plus_i THEN [o EXCEPT !.flags = @ \ {REG_ICASE}]
  ELSE IF Len(i) + o.largeREindex + 3 < BUFSIZ - 1 THEN AddRE(o, i)
  ELSE FlushRE(o)

\* OptimisedToken whose capacity check leaves out the three characters kept
\* for '|', '(' and ')'
OptimisedTokenNoMargin(o, i) ==
  IF i = minus_i
  THEN IF REG_ICASE \in o.flags THEN o
       ELSE LET f == FlushRE(o)
            IN  IF ~f.ok THEN f ELSE [f EXCEPT !.flags = @ \cup {REG_ICASE}]
  ELSE IF i = plus_i
  THEN IF REG_ICASE \notin o.flags THEN o
       ELSE LET f == FlushRE(o)
            IN  IF ~f.ok THEN f ELSE [f EXCEPT !.flags = @ \ {REG_ICASE}]
  ELSE IF Len(i) + o.largeREindex < BUFSIZ - 1 THEN AddRE(o, i)
  ELSE FlushRE(o)

\* OptimisedToken that flushes at every flag token, also at one that
\* changes nothing
OptimisedTokenAlwaysFlush(o, i) ==
  IF i = minus_i
  THEN LET f == FlushRE(o)
       IN  IF ~f.ok THEN f ELSE [f EXCEPT !.flags = @ \cup {REG_ICASE}]
  ELSE IF i = plus_i
  THEN LET f == FlushRE(o)
       IN  IF ~f.ok THEN f ELSE [f EXCEPT !.flags = @ \ {REG_ICASE}]
  ELSE IF Len(i) + o.largeREindex + 3 < BUFSIZ - 1 THEN AddRE(o, i)
  ELSE FlushRE(o)

\* one iteration of the loop over sl, for the token i
OptimisedToken(o, i) ==
  LET RElen == Len(i)
  IN  IF i = minus_i
      THEN IF REG_ICASE \in o.flags THEN o
           ELSE LET f == FlushRE(o)
                IN  IF ~f.ok THEN f ELSE [f EXCEPT !.flags = @ \cup {REG_ICASE}]
      ELSE IF i = plus_i
      THEN IF REG_ICASE \notin o.flags THEN o
           ELSE LET f == FlushRE(o)
                IN  IF ~f.ok THEN f ELSE [f EXCEPT !.flags = @ \ {REG_ICASE}]
      ELSE IF RElen + o.largeREindex + 3 < BUFSIZ - 1
      THEN AddRE(o, i)
      ELSE FlushRE(o)    \* "continue" moves the range-for loop on to the next token

\* splice at the head of curlist
splicePrepend(curlist, newlist) == newlist \o curlist

\* curlist.splice(curlist.end(), newlist)
splice(curlist, newlist) == curlist \o newlist

RECURSIVE OptimisedLoop(_, _, _)
OptimisedLoop(o, sl, k) ==
  IF k > Len(sl) \/ ~o.ok THEN o
  ELSE OptimisedLoop(OptimisedToken(o, sl[k]), sl, k + 1)

\* the whole function: ret is its return value, list the curlist afterwards
compileOptimisedREs(curlist, sl) ==
  LET o == OptimisedLoop(OptLocals, sl, 1)
      f == FlushRE(o)
  IN  IF ~o.ok \/ ~f.ok THEN [ret |-> 0, list |-> curlist]
      ELSE [ret |-> 1, list |-> splice(curlist, f.newlist)]

(***************************************************************************)
(* compileUnoptimisedREs                                                   *)
(***************************************************************************)
UnoptLocals(curlist) == [curlist |-> curlist, flags |-> {REG_EXTENDED, REG_NOSUB}]

\* UnoptimisedToken with a flag token compiled as a pattern as well
UnoptimisedTokenNoElse(u, i) ==
  LET f == IF i = minus_i THEN u.flags \cup {REG_ICASE}
           ELSE IF i = plus_i THEN u.flags \ {REG_ICASE}
           ELSE u.flags
  IN  [curlist |-> compileRE(u.curlist, i, f).list, flags |-> f]

\* one iteration of the loop over sl, for the token i
UnoptimisedToken(u, i) ==
  IF i = minus_i THEN [u EXCEPT !.flags = @ \cup {REG_ICASE}]
  ELSE IF i = plus_i THEN [u EXCEPT !.flags = @ \ {REG_ICASE}]
  ELSE [u EXCEPT !.curlist = compileRE(@, i, u.flags).list]

RECURSIVE UnoptimisedLoop(_, _, _)
UnoptimisedLoop(u, sl, k) ==
  IF k > Len(sl) THEN u ELSE UnoptimisedLoop(UnoptimisedToken(u, sl[k]), sl, k + 1)

compileUnoptimisedREs(curlist, sl) == UnoptimisedLoop(UnoptLocals(curlist), sl, 1).curlist

(***************************************************************************)
(* ACLRegexData::parse                                                     *)
(***************************************************************************)
\* lines 231-238: sl after the raw token t has been read
BufferRE(sl, t) ==
  LET clean == removeUnnecessaryWildcards(t)
  IN  IF strlen(clean) > BUFSIZ - 1 THEN sl ELSE Append(sl, clean)

RECURSIVE BufferAll(_, _, _)
BufferAll(sl, tokens, k) ==
  IF k > Len(tokens) THEN sl ELSE BufferAll(BufferRE(sl, tokens[k]), tokens, k + 1)

\* data after parse() has read the raw tokens
parse(data, tokens) ==
  LET sl == BufferAll(<<>>, tokens, 1)
      o == compileOptimisedREs(data, sl)
  IN  IF o.ret = 0 THEN compileUnoptimisedREs(data, sl) ELSE o.list

(***************************************************************************)
(* What a raw token sequence loads, read off the tokens alone: the         *)
(* patterns that are neither "-i" nor "+i", trimmed, at most BUFSIZ-1 long *)
(* and accepted by regcomp, each with the case-sensitivity its position    *)
(* has (sensitive at first, switched by every "-i" and "+i" before it).    *)
(***************************************************************************)
IsFlag(t) == t = minus_i \/ t = plus_i

RECURSIVE IcaseAt(_, _)
IcaseAt(tokens, k) ==
  IF k <= 1 THEN FALSE
  ELSE IF tokens[k - 1] = minus_i THEN TRUE
  ELSE IF tokens[k - 1] = plus_i THEN FALSE
  ELSE IcaseAt(tokens, k - 1)

Loaded(tokens) ==
  {[pattern |-> removeUnnecessaryWildcards(tokens[k]), icase |-> IcaseAt(tokens, k)] :
     k \in {j \in 1..Len(tokens) :
              /\ ~IsFlag(tokens[j])
              /\ Len(removeUnnecessaryWildcards(tokens[j])) <= BUFSIZ - 1
              /\ RegcompOK(removeUnnecessaryWildcards(tokens[j]))}}

(***************************************************************************)
(* The state.                                                              *)
(*   data     ACLRegexData::data, the list of compiled patterns            *)
(*   pc       where control is: "idle" (between calls), "parse" (the       *)
(*            tokenizer loop of parse()), "optimise", "unoptimise" (the    *)
(*            loops of the two compilers), "return" (parse() is about to   *)
(*            return), "aborted" (an assertion failed)                     *)
(*   sl       parse()'s token list                                         *)
(*   pos      the loop position in sl                                      *)
(*   opt      the locals of compileOptimisedREs                            *)
(*   unoptFlags  the local flags of compileUnoptimisedREs                  *)
(*   ret      the last call and what it returned                           *)
(* History, read by the properties only:                                   *)
(*   ntokens  raw tokens read so far                                       *)
(*   raw      raw tokens read by the current parse()                       *)
(*   before   data when the current parse() began                          *)
(*   how      how the current parse() compiled: "none" (not yet),          *)
(*            "optimised" or "unoptimised"                                 *)
(*   loaded   the patterns loaded so far, each with its case-sensitivity   *)
(*   merged   for each entry of opt.newlist, the positions in sl of the    *)
(*            tokens added to largeRE when it was compiled                 *)
(*   inRE     the positions in sl of the tokens now in largeRE             *)
(***************************************************************************)
VARIABLES data, pc, sl, pos, opt, unoptFlags, ret,
          ntokens, raw, before, how, loaded, merged, inRE

vars == <<data, pc, sl, pos, opt, unoptFlags, ret,
          ntokens, raw, before, how, loaded, merged, inRE>>

NoRet == [call |-> "none"]

Init ==
  /\ data = <<>>
  /\ pc = "idle"
  /\ sl = <<>>
  /\ pos = 1
  /\ opt = OptLocals
  /\ unoptFlags = {REG_EXTENDED, REG_NOSUB}
  /\ ret = NoRet
  /\ ntokens = 0
  /\ raw = <<>>
  /\ before = <<>>
  /\ how = "none"
  /\ loaded = {}
  /\ merged = <<>>
  /\ inRE = <<>>

(***************************************************************************)
(* parse(): entry, one turn of the tokenizer loop, and its end, where      *)
(* compileOptimisedREs(data, sl) is entered.                               *)
(***************************************************************************)
ParseBegin ==
  /\ pc = "idle"
  /\ ntokens < MaxTokens
  /\ pc' = "parse"
  /\ before' = data
  /\ ret' = NoRet
  /\ UNCHANGED <<data, sl, pos, opt, unoptFlags, ntokens, raw, how, loaded, merged, inRE>>

ParseToken ==
  /\ pc = "parse"
  /\ ntokens < MaxTokens
  /\ \E t \in RawTokens :
       /\ sl' = BufferRE(sl, t)
       /\ raw' = Append(raw, t)
       /\ loaded' = loaded \cup Loaded(Append(raw, t))
  /\ ntokens' = ntokens + 1
  /\ UNCHANGED <<data, pc, pos, opt, unoptFlags, ret, before, how, merged, inRE>>

ParseEnd ==
  /\ pc = "parse"
  /\ pc' = "optimise"
  /\ opt' = OptLocals
  /\ pos' = 1
  /\ merged' = <<>>
  /\ inRE' = <<>>
  /\ UNCHANGED <<data, sl, unoptFlags, ret, ntokens, raw, before, how, loaded>>

(***************************************************************************)
(* compileOptimisedREs: one loop iteration, and the code after the loop.   *)
(* When the function returns 0, parse() enters compileUnoptimisedREs.      *)
(***************************************************************************)
\* merged and inRE follow what the step did to newlist and largeRE
Track(o, n) ==
  /\ merged' = IF n.newlist # o.newlist THEN Append(merged, inRE) ELSE merged
  /\ inRE' = IF n.largeRE = <<>> THEN <<>>
             ELSE IF n.largeRE # o.largeRE THEN Append(inRE, pos)
             ELSE inRE

\* Return0 with the partial newlist left in the destination
Return0Leaky ==
  /\ pc' = "unoptimise"
  /\ pos' = 1
  /\ unoptFlags' = UnoptLocals(data).flags
  /\ data' = data \o opt'.newlist
  /\ UNCHANGED how

Return0 ==
  /\ pc' = "unoptimise"
  /\ pos' = 1
  /\ unoptFlags' = UnoptLocals(data).flags
  /\ UNCHANGED <<data, how>>

\* OptToken with the buffer-full branch repeating the turn for the same
\* token, as the comment at line 186 has it ("do the loop again")
OptTokenAgain ==
  /\ pc = "optimise"
  /\ pos <= Len(sl)
  /\ LET n == OptimisedToken(opt, sl[pos])
         full == /\ ~IsFlag(sl[pos])
                 /\ ~(Len(sl[pos]) + opt.largeREindex + 3 < BUFSIZ - 1)
     IN  /\ opt' = n
         /\ Track(opt, n)
         /\ IF n.ok
            THEN /\ pos' = IF full THEN pos ELSE pos + 1
                 /\ UNCHANGED <<data, pc, unoptFlags, how>>
            ELSE Return0
  /\ UNCHANGED <<sl, ret, ntokens, raw, before, loaded>>

OptToken ==
  /\ pc = "optimise"
  /\ pos <= Len(sl)
  /\ LET n == OptimisedToken(opt, sl[pos])
     IN  /\ opt' = n
         /\ Track(opt, n)
         /\ IF n.ok
            THEN pos' = pos + 1 /\ UNCHANGED <<data, pc, unoptFlags, how>>
            ELSE Return0
  /\ UNCHANGED <<sl, ret, ntokens, raw, before, loaded>>

OptEnd ==
  /\ pc = "optimise"
  /\ pos > Len(sl)
  /\ LET n == FlushRE(opt)
     IN  /\ opt' = n
         /\ Track(opt, n)
         /\ IF n.ok
            THEN /\ data' = splice(data, n.newlist)
                 /\ pc' = "return"
                 /\ how' = "optimised"
                 /\ UNCHANGED <<pos, unoptFlags>>
            ELSE Return0
  /\ UNCHANGED <<sl, ret, ntokens, raw, before, loaded>>

(***************************************************************************)
(* compileUnoptimisedREs: one loop iteration, and the return.              *)
(***************************************************************************)
UnoptToken ==
  /\ pc = "unoptimise"
  /\ pos <= Len(sl)
  /\ LET u == UnoptimisedToken([curlist |-> data, flags |-> unoptFlags], sl[pos])
     IN  /\ data' = u.curlist
         /\ unoptFlags' = u.flags
  /\ pos' = pos + 1
  /\ UNCHANGED <<pc, sl, opt, ret, ntokens, raw, before, how, loaded, merged, inRE>>

UnoptEnd ==
  /\ pc = "unoptimise"
  /\ pos > Len(sl)
  /\ pc' = "return"
  /\ how' = "unoptimised"
  /\ UNCHANGED <<data, sl, pos, opt, unoptFlags, ret, ntokens, raw, before, loaded, merged, inRE>>

\* parse() returns: its locals and those of the compilers are gone
ParseReturn ==
  /\ pc = "return"
  /\ pc' = "idle"
  /\ sl' = <<>>
  /\ pos' = 1
  /\ opt' = OptLocals
  /\ unoptFlags' = {REG_EXTENDED, REG_NOSUB}
  /\ raw' = <<>>
  /\ before' = <<>>
  /\ how' = "none"
  /\ merged' = <<>>
  /\ inRE' = <<>>
  /\ UNCHANGED <<data, ret, ntokens, loaded>>

(***************************************************************************)
(* The calls that read the list.                                           *)
(***************************************************************************)
\* Match as the code was before the change lines 42-43 tell of: the pattern
\* that matched is moved to the head of the list
MatchMoveToFront ==
  /\ pc = "idle"
  /\ \E word \in Words \cup {NULL} :
       LET k == IF word = NULL THEN 0 ELSE FirstMatch(data, 1, word)
       IN  /\ ret' = [call |-> "match", word |-> word, value |-> match(data, word),
                      calls |-> matchCalls(data, word)]
           /\ data' = IF k = 0 THEN data
                      ELSE <<data[k]>> \o SubSeq(data, 1, k - 1) \o SubSeq(data, k + 1, Len(data))
  /\ UNCHANGED <<pc, sl, pos, opt, unoptFlags, ntokens, raw, before, how, loaded, merged, inRE>>

Match ==
  /\ pc = "idle"
  /\ \E word \in Words \cup {NULL} :
       ret' = [call |-> "match", word |-> word, value |-> match(data, word),
               calls |-> matchCalls(data, word)]
  /\ UNCHANGED <<data, pc, sl, pos, opt, unoptFlags, ntokens, raw, before, how, loaded, merged, inRE>>

Dump ==
  /\ pc = "idle"
  /\ ret' = [call |-> "dump", value |-> dump(data)]
  /\ UNCHANGED <<data, pc, sl, pos, opt, unoptFlags, ntokens, raw, before, how, loaded, merged, inRE>>

Empty ==
  /\ pc = "idle"
  /\ ret' = [call |-> "empty", value |-> (data = <<>>)]
  /\ UNCHANGED <<data, pc, sl, pos, opt, unoptFlags, ntokens, raw, before, how, loaded, merged, inRE>>

\* Clone without the assertion of line 256
CloneNoAssert ==
  /\ pc = "idle"
  /\ ret' = [call |-> "clone", value |-> <<>>]
  /\ UNCHANGED <<data, pc, sl, pos, opt, unoptFlags, ntokens, raw, before, how, loaded, merged, inRE>>

\* clone(): assert(data.empty()), then a new ACLRegexData, whose list is empty
Clone ==
  /\ pc = "idle"
  /\ IF data = <<>>
     THEN ret' = [call |-> "clone", value |-> <<>>] /\ pc' = pc
     ELSE ret' = [call |-> "clone"] /\ pc' = "aborted"
  /\ UNCHANGED <<data, sl, pos, opt, unoptFlags, ntokens, raw, before, how, loaded, merged, inRE>>

Next ==
  \/ ParseBegin
  \/ ParseToken
  \/ ParseEnd
  \/ OptToken
  \/ OptEnd
  \/ UnoptToken
  \/ UnoptEnd
  \/ ParseReturn
  \/ Match
  \/ Dump
  \/ Empty
  \/ Clone

Spec == Init /\ [][Next]_vars

(***************************************************************************)
(* parse() runs in one thread from its entry to its return: a step of the  *)
(* call that is under way, when one is possible, is taken in the end.  The *)
(* tokenizer loop ends when RegexStrtokFile() returns NULL, which a finite *)
(* input makes it do.  Between calls nothing has to happen.                *)
(***************************************************************************)
ParseStep == ParseEnd \/ OptToken \/ OptEnd \/ UnoptToken \/ UnoptEnd \/ ParseReturn

FairSpec == Spec /\ WF_vars(ParseStep)

(***************************************************************************)
(* removeUnnecessaryWildcards on its own: one raw token, taken from every  *)
(* string of at most MaxTrimLen characters of TrimChars and from the       *)
(* longer strings of TrimExamples, is trimmed as line 231 does it.  raw    *)
(* holds the token, sl what the function returned for it.                  *)
(***************************************************************************)
MaxTrimLen == 3
TrimChars == {"^", ".", "*", "b"}

RECURSIVE Strings(_)
Strings(n) ==
  IF n = 0 THEN {<<>>}
  ELSE Strings(n - 1) \cup {Append(x, c) : x \in Strings(n - 1), c \in TrimChars}

wild_foo == <<"^", ".", "*", "f", "o", "o">>
dots_bar == <<".", ".", ".", ".", "*", "b", "a", "r">>
wilds_bar == <<".", "*", ".", "*", "b", "a", "r">>
foo == <<"f", "o", "o">>
bar == <<"b", "a", "r">>
TrimExamples == {wild_foo, dots_bar, wilds_bar}

TrimInit ==
  /\ data = <<>>
  /\ pc = "trim"
  /\ sl = <<>>
  /\ pos = 1
  /\ opt = OptLocals
  /\ unoptFlags = {REG_EXTENDED, REG_NOSUB}
  /\ ret = NoRet
  /\ ntokens = 1
  /\ \E t \in Strings(MaxTrimLen) \cup TrimExamples : raw = <<t>>
  /\ before = <<>>
  /\ how = "none"
  /\ loaded = {}
  /\ merged = <<>>
  /\ inRE = <<>>

TrimToken ==
  /\ pc = "trim"
  /\ sl' = <<removeUnnecessaryWildcards(raw[1])>>
  /\ pc' = "trimmed"
  /\ UNCHANGED <<data, pos, opt, unoptFlags, ret, ntokens, raw, before, how, loaded, merged, inRE>>

TrimNext == TrimToken

SpecTrim == TrimInit /\ [][TrimNext]_vars

(***************************************************************************)
(* Definitions the properties share.                                       *)
(***************************************************************************)
\* the entries the current parse() has added to data
Added == SubSeq(data, Len(before) + 1, Len(data))

Flags(icase) ==
  IF icase THEN {REG_EXTENDED, REG_NOSUB, REG_ICASE} ELSE {REG_EXTENDED, REG_NOSUB}

\* (p1)|(p2)|...|(pn) for the patterns ps
RECURSIVE Alternation(_)
Alternation(ps) ==
  IF ps = <<>> THEN <<>>
  ELSE IF Len(ps) = 1 THEN <<"(">> \o ps[1] \o <<")">>
  ELSE Alternation(SubSeq(ps, 1, Len(ps) - 1)) \o <<"|", "(">> \o ps[Len(ps)] \o <<")">>

\* the raw tokens parse() keeps (lines 232-238)
IsKept(t) == Len(removeUnnecessaryWildcards(t)) <= BUFSIZ - 1
KeptRaw == SelectSeq(raw, IsKept)

\* the pattern tokens of sl, in order
NotFlag(t) == ~IsFlag(t)
Patterns(toks) == SelectSeq(toks, NotFlag)

AtReturn == pc = "return"

(***************************************************************************)
(* C1: after any sequence of load() calls on an empty matcher, match(word) *)
(* is true exactly when some loaded pattern token (trimmed, at most        *)
(* MAXBUF-1 long, valid) matches word under the case-sensitivity of its    *)
(* position in its load.                                                   *)
(***************************************************************************)
C1_MatchIffLoaded ==
  pc = "idle" =>
    \A w \in Words :
      match(data, w) <=> \E p \in loaded : Regexec(p.pattern, p.icase, w)

(***************************************************************************)
(* C2: when the Optimizer succeeds, the entries it made and the entries    *)
(* the FallbackCompiler makes from the same token sequence give the same   *)
(* match result for every word.                                            *)
(***************************************************************************)
C2_OptimisedMatchesAsFallback ==
  (AtReturn /\ how = "optimised") =>
    \A w \in Words :
      match(Added, w) = match(compileUnoptimisedREs(<<>>, sl), w)

(***************************************************************************)
(* C3: loading the tokens of serialize() into an empty matcher gives the   *)
(* same match result as the original for every word.                       *)
(***************************************************************************)
C3_DumpReloadMatchesSame ==
  pc = "idle" =>
    \A w \in Words : match(parse(<<>>, dump(data)), w) = match(data, w)

(***************************************************************************)
(* C4: the Optimizer is all-or-nothing.  While it runs the destination is  *)
(* as it was before the call; when a flush fails the FallbackCompiler      *)
(* starts on the same tokens with the destination still as before and the  *)
(* entries it adds are plain tokens of sl, none of them from the temporary *)
(* list; when the Optimizer succeeds the destination is the old list       *)
(* followed by the whole temporary list.                                   *)
(***************************************************************************)
C4_AllOrNothing ==
  /\ pc = "optimise" => data = before
  /\ pc = "unoptimise" =>
       /\ ~opt.ok
       /\ pos = 1 => data = before
  /\ (pc = "unoptimise" \/ (AtReturn /\ how = "unoptimised")) =>
       /\ Len(data) >= Len(before)
       /\ \A j \in 1..Len(Added) : \E k \in 1..Len(sl) : Added[j].pattern = sl[k]
  /\ (AtReturn /\ how = "optimised") =>
       /\ opt.ok
       /\ data = before \o opt.newlist

\* a flush failed after the temporary list had got an entry, and the
\* non-empty destination is as it was
C4_Witness ==
  /\ pc = "unoptimise"
  /\ pos = 1
  /\ opt.newlist # <<>>
  /\ before # <<>>
  /\ data = before

(***************************************************************************)
(* C5: when a valid pattern token p that would fit an empty buffer does    *)
(* not fit behind the current accumulation, the Optimizer flushes the      *)
(* accumulation as one entry and starts a new accumulation that holds only *)
(* (p).                                                                    *)
(***************************************************************************)
C5_FullBufferStartsNew ==
  [][ ( /\ pc = "optimise"
        /\ pos <= Len(sl)
        /\ ~IsFlag(sl[pos])
        /\ RegcompOK(sl[pos])
        /\ Len(sl[pos]) + 3 < BUFSIZ - 1
        /\ ~(Len(sl[pos]) + opt.largeREindex + 3 < BUFSIZ - 1)
        /\ opt'.ok )
      => ( /\ opt'.newlist = Append(opt.newlist, RegexPattern(opt.flags, opt.largeRE))
           /\ opt'.largeRE = <<"(">> \o sl[pos] \o <<")">> ) ]_vars

(***************************************************************************)
(* C6: the FallbackCompiler runs to the end of the tokens and adds exactly *)
(* one entry per pattern token that compiles, in token order, each with    *)
(* the case flag of its position; a token that fails to compile is skipped *)
(* alone and a flag token adds no entry.                                   *)
(***************************************************************************)
\* one entry for each of the first k tokens that is a pattern and compiles
RECURSIVE OnePerValid(_, _)
OnePerValid(toks, k) ==
  IF k = 0 THEN <<>>
  ELSE OnePerValid(toks, k - 1) \o
       (IF ~IsFlag(toks[k]) /\ RegcompOK(toks[k])
        THEN <<RegexPattern(Flags(IcaseAt(toks, k)), toks[k])>>
        ELSE <<>>)

C6_FallbackOnePerValid ==
  /\ pc = "unoptimise" =>
       /\ pos <= Len(sl) + 1
       /\ data = before \o OnePerValid(sl, pos - 1)
  /\ (AtReturn /\ how = "unoptimised") =>
       /\ pos = Len(sl) + 1
       /\ data = before \o OnePerValid(sl, Len(sl))

\* "(" is skipped, "-i" adds nothing, and abc behind them is compiled
\* case-insensitive
C6_Witness ==
  /\ AtReturn
  /\ how = "unoptimised"
  /\ sl = <<badRE, minus_i, abc>>
  /\ Added = <<RegexPattern(Flags(TRUE), abc)>>

(***************************************************************************)
(* C7: valid pattern tokens p1..pn with no case-flag change after p1,      *)
(* each passing the capacity check when it is added, give exactly one      *)
(* entry, with the source text (p1)|(p2)|...|(pn).                         *)
(***************************************************************************)
\* the flag tokens behind the first pattern change nothing
NoFlagChange(toks) ==
  \A k \in 1..Len(toks) :
    (IsFlag(toks[k]) /\ \E j \in 1..(k - 1) : ~IsFlag(toks[j]))
      => IcaseAt(toks, k + 1) = IcaseAt(toks, k)

\* every pattern passes line 167's check behind the ones before it
AllFit(ps) ==
  \A k \in 1..Len(ps) :
    Len(ps[k]) + Len(Alternation(SubSeq(ps, 1, k - 1))) + 3 < BUFSIZ - 1

C7_OneAlternation ==
  ( /\ AtReturn
    /\ Patterns(sl) # <<>>
    /\ \A k \in 1..Len(sl) : IsFlag(sl[k]) \/ RegcompOK(sl[k])
    /\ NoFlagChange(sl)
    /\ AllFit(Patterns(sl)) )
  => ( /\ how = "optimised"
       /\ Len(Added) = 1
       /\ Added[1].pattern = Alternation(Patterns(sl)) )

C7_Witness ==
  /\ AtReturn
  /\ sl = <<abc, def>>
  /\ Added = <<RegexPattern(Flags(FALSE),
                 <<"(", "a", "b", "c", ")", "|", "(", "d", "e", "f", ")">>)>>

(***************************************************************************)
(* C8: the Optimizer never merges across a case-flag boundary.  Every      *)
(* entry of its output is the alternation of tokens that all stand under   *)
(* one case-sensitivity, the entry carries that flag, and the entries and  *)
(* the tokens in them are in token order.                                  *)
(***************************************************************************)
RECURSIVE Flatten(_)
Flatten(ss) == IF ss = <<>> THEN <<>> ELSE Head(ss) \o Flatten(Tail(ss))

TokensAt(ks) == [j \in 1..Len(ks) |-> sl[ks[j]]]

C8_NoMergeAcrossFlags ==
  (pc = "optimise" \/ (AtReturn /\ how = "optimised")) =>
    /\ Len(merged) = Len(opt.newlist)
    /\ \A j \in 1..Len(merged) :
         /\ merged[j] # <<>>
         /\ opt.newlist[j].pattern = Alternation(TokensAt(merged[j]))
         /\ \A n \in 1..Len(merged[j]) :
              /\ ~IsFlag(sl[merged[j][n]])
              /\ IcaseAt(sl, merged[j][n]) = (REG_ICASE \in opt.newlist[j].flags)
    /\ LET order == Flatten(merged) \o inRE
       IN  \A n \in 1..(Len(order) - 1) : order[n] < order[n + 1]
    /\ AtReturn => Added = opt.newlist

C8_Witness ==
  /\ AtReturn
  /\ how = "optimised"
  /\ sl = <<abc, minus_i, def>>
  /\ Added = <<RegexPattern(Flags(FALSE), <<"(", "a", "b", "c", ")">>),
               RegexPattern(Flags(TRUE), <<"(", "d", "e", "f", ")">>)>>

(***************************************************************************)
(* C9: load() only appends.  Throughout a load and at its return the       *)
(* entries the list held before the call are an unchanged prefix of it.    *)
(***************************************************************************)
C9_AppendOnly ==
  pc \in {"parse", "optimise", "unoptimise", "return"} =>
    /\ Len(data) >= Len(before)
    /\ SubSeq(data, 1, Len(before)) = before

\* a second load, compiled by the fallback, has added behind the first
C9_Witness ==
  /\ AtReturn
  /\ how = "unoptimised"
  /\ before # <<>>
  /\ Len(data) > Len(before)

C9_WitnessOptimised ==
  /\ AtReturn
  /\ how = "optimised"
  /\ before # <<>>
  /\ Len(data) > Len(before)

(***************************************************************************)
(* C10: only a raw token that is literally -i or +i toggles the case flag; *)
(* every other raw token, also one the trimmer shortens, is pattern text.  *)
(* So the case flag a compiler holds when it reaches a token is the one    *)
(* the literal -i and +i tokens read before that token give.               *)
(***************************************************************************)
C10_OnlyLiteralFlags ==
  /\ pc = "optimise" =>
       (REG_ICASE \in opt.flags) = IcaseAt(KeptRaw, pos)
  /\ pc = "unoptimise" =>
       (REG_ICASE \in unoptFlags) = IcaseAt(KeptRaw, pos)

(***************************************************************************)
(* C11: match() only reads the list.  Whatever it returns, the entries of  *)
(* data, their flags and their order are after the call what they were     *)
(* before it, and the value it returned is the value another call for the  *)
(* same word returns.                                                      *)
(***************************************************************************)
C11_MatchReadsOnly ==
  [][ret'.call = "match" =>
       /\ data' = data
       /\ ret'.value = match(data', ret'.word)]_vars

\* a word has matched the second pattern of the list, not the first
C11_Witness ==
  /\ ret.call = "match"
  /\ ret.value
  /\ Len(data) >= 2
  /\ FirstMatch(data, 1, ret.word) = 2

(***************************************************************************)
(* C12: match() of a null word returns false and calls no pattern's match, *)
(* also when the list holds the catch-all pattern.                         *)
(***************************************************************************)
C12_NullWordNeverMatches ==
  (ret.call = "match" /\ ret.word = NULL) =>
    /\ ret.value = FALSE
    /\ ret.calls = 0

\* the null word has been looked up in a list that holds the catch-all
C12_Witness ==
  /\ ret.call = "match"
  /\ ret.word = NULL
  /\ \E k \in 1..Len(data) : data[k].pattern = <<"(", ".", "*", ")">>
  /\ match(data, abc)

(***************************************************************************)
(* C13: empty() returns true exactly when the list has no entry, so it is  *)
(* true after construction and false once a load has added a pattern.      *)
(* clone() on an empty list returns a new instance whose list is empty and *)
(* leaves the list as it is; clone() on a list with an entry fails the     *)
(* assertion and returns no instance.                                      *)
(***************************************************************************)
C13_EmptyAndClone ==
  /\ ret.call = "empty" => (ret.value <=> Len(data) = 0)
  /\ (ret.call = "empty" /\ ntokens = 0) => ret.value
  /\ ret.call = "clone" =>
       IF data = <<>>
       THEN pc = "idle" /\ ret = [call |-> "clone", value |-> <<>>]
       ELSE pc = "aborted" /\ ret = [call |-> "clone"]
  /\ pc = "aborted" => ret.call = "clone"

\* clone() has been called on a list that holds a pattern
C13_Witness ==
  /\ ret.call = "clone"
  /\ data # <<>>

\* clone() has been called on the empty list after a load that added nothing
C13_WitnessEmpty ==
  /\ ret.call = "clone"
  /\ data = <<>>
  /\ ntokens > 0

(***************************************************************************)
(* C14, as the specification states it: removeUnnecessaryWildcards returns *)
(* foo for ^.*foo, bar for ....*bar, and the catch-all .* both for ^.* and *)
(* for the empty string.                                                   *)
(***************************************************************************)
C14_TrimExamplesAsStated ==
  pc = "trimmed" =>
    /\ raw[1] = wild_foo => sl[1] = foo
    /\ raw[1] = dots_bar => sl[1] = bar
    /\ raw[1] \in {wild, <<>>} => sl[1] = <<".", "*">>

(***************************************************************************)
(* C14, amended: removeUnnecessaryWildcards returns foo for ^.*foo, bar    *)
(* for .*.*bar, ....*bar itself for ....*bar (a '.' with no '*' behind it  *)
(* is kept, and so is all that follows it), and the catch-all .* both for  *)
(* ^.* and for the empty string.                                           *)
(***************************************************************************)
C14_TrimExamples ==
  pc = "trimmed" =>
    /\ raw[1] = wild_foo => sl[1] = foo
    /\ raw[1] = wilds_bar => sl[1] = bar
    /\ raw[1] = dots_bar => sl[1] = dots_bar
    /\ raw[1] \in {wild, <<>>} => sl[1] = <<".", "*">>

\* ....*bar has been trimmed
C14_Witness ==
  /\ pc = "trimmed"
  /\ raw[1] = dots_bar

(***************************************************************************)
(* C15: a flush of an empty accumulator never makes compileOptimisedREs    *)
(* fail: the function returns 0 only from a flush of a non-empty           *)
(* accumulator, and a token list that holds nothing but flag tokens and    *)
(* patterns regcomp accepts is compiled by compileOptimisedREs.            *)
(***************************************************************************)
C15_EmptyFlushHarmless ==
  /\ (pc = "unoptimise" /\ ~opt.ok) => opt.largeRE # <<>>
  /\ (AtReturn /\ \A k \in 1..Len(sl) : IsFlag(sl[k]) \/ RegcompOK(sl[k])) =>
       how = "optimised"

(***************************************************************************)
(* C16: every pattern token parse() has admitted into sl passes the        *)
(* capacity check of compileOptimisedREs against an empty accumulator      *)
(* (RElen + 0 + 3 < BUFSIZ-1), so the loop never reaches its buffer-full   *)
(* branch while largeRE is empty.                                          *)
(***************************************************************************)
C16_AdmittedFitsEmptyBuffer ==
  (pc = "optimise" /\ pos <= Len(sl) /\ ~IsFlag(sl[pos])) =>
    /\ Len(sl[pos]) + 0 + 3 < BUFSIZ - 1
    /\ opt.largeREindex = 0 => OptimisedToken(opt, sl[pos]) = AddRE(opt, sl[pos])

(***************************************************************************)
(* C17: a flag token that asks for the case flag compileOptimisedREs       *)
(* already has (-i with REG_ICASE set, +i with it clear) changes nothing:  *)
(* the step over it leaves largeRE, largeREindex, flags and newlist as     *)
(* they are and moves on to the next token, so the patterns on both sides  *)
(* of it are gathered in the same largeRE.                                 *)
(***************************************************************************)
RedundantFlag ==
  /\ pc = "optimise"
  /\ pos <= Len(sl)
  /\ \/ sl[pos] = minus_i /\ REG_ICASE \in opt.flags
     \/ sl[pos] = plus_i /\ REG_ICASE \notin opt.flags

C17_RedundantFlagIsNoOp ==
  [][RedundantFlag =>
       /\ opt' = opt
       /\ pos' = pos + 1
       /\ pc' = "optimise"
       /\ data' = data]_vars

\* a redundant +i stood between abc and def, and both are in one entry
C17_Witness ==
  /\ AtReturn
  /\ sl = <<abc, plus_i, def>>
  /\ Added = <<RegexPattern(Flags(FALSE), Alternation(<<abc, def>>))>>

(***************************************************************************)
(* C18: dump() returns the patterns of data in list order, one token for   *)
(* each entry, with a flag token before an entry exactly when that entry's *)
(* case flag differs from the one of the entry before it (case-sensitive   *)
(* before the first): -i when it is set, +i when it is clear.  So the flag *)
(* tokens before a pattern token give the case flag of its entry, no two   *)
(* flag tokens are adjacent, the last token is no flag token and the first *)
(* is not +i.                                                              *)
(***************************************************************************)
\* the case flag of the entry before the k-th; case-sensitive before the first
IcaseBefore(k) == k > 1 /\ REG_ICASE \in data[k - 1].flags

\* where the k-th entry's pattern token stands in dump()'s output
DumpIndex(k) ==
  k + Cardinality({j \in 1..k : (REG_ICASE \in data[j].flags) # IcaseBefore(j)})

C18_DumpShape ==
  ret.call = "dump" =>
    LET out == ret.value
    IN  /\ Len(out) = DumpIndex(Len(data))
        /\ \A k \in 1..Len(data) :
             LET at == DumpIndex(k)
                 icase == REG_ICASE \in data[k].flags
             IN  /\ out[at] = data[k].pattern
                 /\ ~IsFlag(out[at])
                 /\ IcaseAt(out, at) = icase
                 /\ icase # IcaseBefore(k) =>
                      out[at - 1] = (IF icase THEN minus_i ELSE plus_i)
        /\ \A j \in 1..Len(out) - 1 : ~(IsFlag(out[j]) /\ IsFlag(out[j + 1]))
        /\ out # <<>> => ~IsFlag(out[Len(out)]) /\ out[1] # plus_i

\* dump() has returned both a -i and a +i
C18_Witness ==
  /\ ret.call = "dump"
  /\ \E j, k \in 1..Len(ret.value) : j < k /\ ret.value[j] = minus_i /\ ret.value[k] = plus_i

(***************************************************************************)
(* C19: while compileOptimisedREs runs, largeREindex is the length of the  *)
(* text gathered in largeRE and is at most BUFSIZ-2, so every character    *)
(* and the terminating 0 are written at an index below BUFSIZ; and every   *)
(* pattern in newlist, and thus every entry the function adds to data, is  *)
(* shorter than BUFSIZ.                                                    *)
(***************************************************************************)
C19_IndexWithinBuffer ==
  pc \in {"optimise", "unoptimise", "return"} =>
    /\ opt.largeREindex <= BUFSIZ - 2
    /\ opt.largeREindex = Len(opt.largeRE)
    /\ \A k \in 1..Len(opt.newlist) : Len(opt.newlist[k].pattern) < BUFSIZ
    /\ (AtReturn /\ how = "optimised") =>
         \A k \in 1..Len(Added) : Len(Added[k].pattern) < BUFSIZ

\* the accumulator has been filled up to the last index the check allows
C19_Witness ==
  /\ pc = "optimise"
  /\ opt.largeREindex = BUFSIZ - 2

(***************************************************************************)
(* C20: parse() returns for every finite token input.  Once the tokenizer  *)
(* loop is entered, control reaches the point behind the call: each turn   *)
(* of the loop of compileOptimisedREs moves on to the next token, also the *)
(* turn that finds the buffer full, and that for a pattern too long for    *)
(* the empty buffer; the function returns 1 or 0; and                      *)
(* compileUnoptimisedREs, when called, walks to the end of sl.             *)
(***************************************************************************)
C20_ParseReturns ==
  (pc \in {"parse", "optimise", "unoptimise", "return"}) ~> (pc = "idle")

\* parse() has returned through the fallback for a token list in which a
\* pattern too long for the empty buffer met the buffer-full branch
C20_Witness ==
  /\ AtReturn
  /\ how = "unoptimised"
  /\ sl = <<abc, minus_i, longRE>>

====
